---- MODULE Spec2Model ----
(***************************************************************************)
(* A model of nadan.py: the Kepner-Tregoe decision analysis table (class   *)
(* KTDA), its scoring operations, weight normalisation, the sensitivity    *)
(* sweep of Figure 3 and the nearest-neighbour imputation of Figure 5.     *)
(*                                                                         *)
(* Numbers.  A Python float or int is a record [nan, v]: nan says that the *)
(* value is math.nan (the "missing" marker), v is the integer value        *)
(* otherwise.  A quotient x / d is kept exact as [nan, num, den].  The     *)
(* value math.sqrt(s) is kept as [inf, sq |-> s]: sqrt is strictly         *)
(* increasing, so two roots compare as their radicands do.                 *)
(*                                                                         *)
(* Calls.  A call either returns a value or raises; its outcome is         *)
(* [ok |-> TRUE, val |-> v] or [ok |-> FALSE, err |-> <exception name>].   *)
(* Sequences are 1-based here and 0-based in Python: every index that is   *)
(* an input or a result of an operation is the Python index.               *)
(***************************************************************************)
EXTENDS Integers, Sequences, FiniteSets

VARIABLES table, result

vars == <<table, result>>

(***************************************************************************)
(* Bounds of the model and value domains of the inputs.                    *)
(***************************************************************************)
MaxCriteria == 2

MaxAlternatives == 3

\* the tables whose weights vary (scoring, normalisation, sweep) have fewer rows
\* than those of the imputation, whose weights are all 1
MaxScoredAlternatives == 2

CriterionNames == <<"Safety", "Cost", "Comfort", "Resale Value", "Prestige">>

AlternativeNames == <<"Lexus RX 350", "Audi A6", "Toyota Prius", "Lexus RX 460", "Honda Civic">>

NaN == [nan |-> TRUE, v |-> 0]

Num(i) == [nan |-> FALSE, v |-> i]

WeightValues == {Num(0), Num(1), Num(2)}

ScoreValues == {NaN, Num(0), Num(1)}

(***************************************************************************)
(* Outcomes of calls and Python's sequence indexing.                       *)
(***************************************************************************)
Return(v) == [ok |-> TRUE, val |-> v]

Raise(e) == [ok |-> FALSE, err |-> e]

\* seq[i] of Python is defined for -len <= i < len; a negative i counts from the end
PyIndexOK(seq, i) == -Len(seq) <= i /\ i < Len(seq)

PyGet(seq, i) == IF i >= 0 THEN seq[i + 1] ELSE seq[Len(seq) + i + 1]

(***************************************************************************)
(* Float arithmetic with NaN propagation and NaN-false comparison.         *)
(***************************************************************************)
FMul(x, y) == IF x.nan \/ y.nan THEN NaN ELSE Num(x.v * y.v)

FAdd(x, y) == IF x.nan \/ y.nan THEN NaN ELSE Num(x.v + y.v)

\* FGt with a missing value ordered below every known one
FGt_missing_lowest(x, y) == ~x.nan /\ (y.nan \/ x.v > y.v)

FGt(x, y) == ~x.nan /\ ~y.nan /\ x.v > y.v

is_missing(x) == x.nan

has_missing(scores) == \E k \in 1..Len(scores) : is_missing(scores[k])

(***************************************************************************)
(* class KTDA                                                              *)
(***************************************************************************)
KTDA(criteria, weights, alternatives, scores) ==
    [criteria |-> criteria, weights |-> weights,
     alternatives |-> alternatives, scores |-> scores]

weighted_score(self, alternative_index, criterion_index) ==
    IF ~PyIndexOK(self.weights, criterion_index) THEN Raise("IndexError")
    ELSE IF ~PyIndexOK(self.scores, alternative_index) THEN Raise("IndexError")
    ELSE IF ~PyIndexOK(PyGet(self.scores, alternative_index), criterion_index)
         THEN Raise("IndexError")
    ELSE Return(FMul(PyGet(self.weights, criterion_index),
                     PyGet(PyGet(self.scores, alternative_index), criterion_index)))

\* the loop of _total_weighted_score from criterion c on, with the running total
RECURSIVE total_loop(_, _, _, _)
total_loop(self, alternative_index, c, total) ==
    IF c >= Len(self.criteria) THEN Return(total)
    ELSE LET ws == weighted_score(self, alternative_index, c)
         IN  IF ~ws.ok THEN ws
             ELSE total_loop(self, alternative_index, c + 1, FAdd(total, ws.val))

total_weighted_score(self, alternative_index) ==
    total_loop(self, alternative_index, 0, Num(0))

\* argmax_loop replacing the best on a tie as well: the last maximum
RECURSIVE argmax_loop_last(_, _, _)
argmax_loop_last(seq, i, best) ==
    IF i >= Len(seq) THEN best
    ELSE IF ~FGt(PyGet(seq, best), PyGet(seq, i)) THEN argmax_loop_last(seq, i + 1, i)
    ELSE argmax_loop_last(seq, i + 1, best)

\* Python's max(range(len(seq)), key=...): the first item is kept until a later
\* one compares strictly greater
RECURSIVE argmax_loop(_, _, _)
argmax_loop(seq, i, best) ==
    IF i >= Len(seq) THEN best
    ELSE IF FGt(PyGet(seq, i), PyGet(seq, best)) THEN argmax_loop(seq, i + 1, i)
    ELSE argmax_loop(seq, i + 1, best)

argmax(seq) ==
    IF Len(seq) = 0 THEN Raise("ValueError") ELSE Return(argmax_loop(seq, 1, 0))

\* tuple(map(...)) of best_alternative: the totals of alternatives i, i + 1, ...
\* appended to weighted_scores
RECURSIVE weighted_scores_loop(_, _, _)
weighted_scores_loop(self, i, weighted_scores) ==
    IF i >= Len(self.alternatives) THEN Return(weighted_scores)
    ELSE LET total == total_weighted_score(self, i)
         IN  IF ~total.ok THEN total
             ELSE weighted_scores_loop(self, i + 1, Append(weighted_scores, total.val))

best_alternative(self) ==
    LET weighted_scores == weighted_scores_loop(self, 0, <<>>)
    IN  IF ~weighted_scores.ok THEN weighted_scores ELSE argmax(weighted_scores.val)

\* Python's sum(seq): the running total from position i (Python index) on
RECURSIVE sum_loop(_, _, _)
sum_loop(seq, i, total) ==
    IF i >= Len(seq) THEN total ELSE sum_loop(seq, i + 1, FAdd(total, PyGet(seq, i)))

FSum(seq) == sum_loop(seq, 0, Num(0))

\* x / d for a divisor that is not zero, kept as an exact quotient
FDiv(x, d) == [nan |-> x.nan \/ d.nan, num |-> IF x.nan \/ d.nan THEN 0 ELSE x.v, den |-> d.v]

\* a division that yields inf or nan for a zero divisor and never raises
DivisionRaises_never(d) == FALSE

\* Python raises ZeroDivisionError for any x / 0, x = nan included
DivisionRaises(d) == ~d.nan /\ d.v = 0

Scale100(x) == FMul(Num(100), x)

new_normalized(self, max_score) ==
    LET sum_weights == FSum(self.weights)
        new_weights == [c \in 1..Len(self.weights) |->
                          FDiv(Scale100(self.weights[c]), sum_weights)]
        new_scores == [a \in 1..Len(self.scores) |->
                         [c \in 1..Len(self.scores[a]) |->
                            FDiv(self.scores[a][c], max_score)]]
    IN  IF Len(self.weights) > 0 /\ DivisionRaises(sum_weights)
        THEN Raise("ZeroDivisionError")
        ELSE IF DivisionRaises(max_score)
                /\ \E a \in 1..Len(self.scores) : Len(self.scores[a]) > 0
        THEN Raise("ZeroDivisionError")
        ELSE Return(KTDA(self.criteria, new_weights, self.alternatives, new_scores))

(***************************************************************************)
(* Imputation: euclidean_distance, _closest_index and                      *)
(* new_imputed_missing_scores.                                             *)
(***************************************************************************)
Inf == [inf |-> TRUE, sq |-> 0]

Sqrt(s) == [inf |-> FALSE, sq |-> s]

\* DLess as d <= e: a later row at the same distance replaces the result
DLess_or_equal(d, e) == e.inf \/ (~d.inf /\ d.sq <= e.sq)

\* d < e for two distances
DLess(d, e) == ~d.inf /\ (e.inf \/ d.sq < e.sq)

\* distance_loop without the test of yy: a missing yy counts as 0
RECURSIVE distance_loop_missing_yy(_, _, _, _)
distance_loop_missing_yy(x, y, i, sum_squared_differences) ==
    IF i >= Len(x) THEN Return(Sqrt(sum_squared_differences))
    ELSE IF is_missing(PyGet(x, i))
         THEN distance_loop_missing_yy(x, y, i + 1, sum_squared_differences)
    ELSE IF ~PyIndexOK(y, i) THEN Raise("IndexError")
    ELSE LET difference == PyGet(x, i).v - PyGet(y, i).v
         IN  distance_loop_missing_yy(x, y, i + 1,
                                      sum_squared_differences + difference * difference)

\* the loop of euclidean_distance from position i (Python index) on
RECURSIVE distance_loop(_, _, _, _)
distance_loop(x, y, i, sum_squared_differences) ==
    IF i >= Len(x) THEN Return(Sqrt(sum_squared_differences))
    ELSE IF is_missing(PyGet(x, i)) THEN distance_loop(x, y, i + 1, sum_squared_differences)
    ELSE IF ~PyIndexOK(y, i) THEN Raise("IndexError")
    ELSE IF is_missing(PyGet(y, i)) THEN distance_loop(x, y, i + 1, sum_squared_differences)
    ELSE LET difference == PyGet(x, i).v - PyGet(y, i).v
         IN  distance_loop(x, y, i + 1, sum_squared_differences + difference * difference)

euclidean_distance(x, y) == distance_loop(x, y, 0, 0)

\* the loop of _closest_index from alternative i on
RECURSIVE closest_loop(_, _, _, _, _)
closest_loop(self, query_index, i, result_index, result_distance) ==
    IF i >= Len(self.alternatives) THEN Return(result_index)
    ELSE IF i = query_index
         THEN closest_loop(self, query_index, i + 1, result_index, result_distance)
    ELSE IF ~PyIndexOK(self.scores, i) THEN Raise("IndexError")
    ELSE IF has_missing(PyGet(self.scores, i))
         THEN closest_loop(self, query_index, i + 1, result_index, result_distance)
    ELSE LET d == euclidean_distance(PyGet(self.scores, i), PyGet(self.scores, query_index))
         IN  IF ~d.ok THEN d
             ELSE IF DLess(d.val, result_distance)
                  THEN closest_loop(self, query_index, i + 1, i, d.val)
             ELSE closest_loop(self, query_index, i + 1, result_index, result_distance)

closest_index(self, query_index) ==
    IF ~PyIndexOK(self.scores, query_index) THEN Raise("IndexError")
    ELSE closest_loop(self, query_index, 0, -1, Inf)

\* overwrite_loop with its test inverted: the missing cells are written over the donor
RECURSIVE overwrite_loop_inverted(_, _, _)
overwrite_loop_inverted(closest, scores_i, k) ==
    IF k >= Len(scores_i) THEN Return(closest)
    ELSE IF ~is_missing(PyGet(scores_i, k)) THEN overwrite_loop_inverted(closest, scores_i, k + 1)
    ELSE IF ~PyIndexOK(closest, k) THEN Raise("IndexError")
    ELSE overwrite_loop_inverted([closest EXCEPT ![k + 1] = PyGet(scores_i, k)], scores_i, k + 1)

\* the inner loop of new_imputed_missing_scores: the donor row with the known
\* cells of scores_i written over it, from position k on
RECURSIVE overwrite_loop(_, _, _)
overwrite_loop(closest, scores_i, k) ==
    IF k >= Len(scores_i) THEN Return(closest)
    ELSE IF is_missing(PyGet(scores_i, k)) THEN overwrite_loop(closest, scores_i, k + 1)
    ELSE IF ~PyIndexOK(closest, k) THEN Raise("IndexError")
    ELSE overwrite_loop([closest EXCEPT ![k + 1] = PyGet(scores_i, k)], scores_i, k + 1)

imputed_row(self, i) ==
    LET scores_i == PyGet(self.scores, i)
    IN  IF has_missing(scores_i)
        THEN LET found == closest_index(self, i)
             IN  IF ~found.ok THEN found
                 ELSE IF ~PyIndexOK(self.scores, found.val) THEN Raise("IndexError")
                 ELSE overwrite_loop(PyGet(self.scores, found.val), scores_i, 0)
        ELSE Return(scores_i)

\* the outer loop of new_imputed_missing_scores from alternative i on
RECURSIVE imputed_loop(_, _, _)
imputed_loop(self, i, new_scores) ==
    IF i >= Len(self.alternatives)
    THEN Return(KTDA(self.criteria, self.weights, self.alternatives, new_scores))
    ELSE IF ~PyIndexOK(self.scores, i) THEN Raise("IndexError")
    ELSE LET row == imputed_row(self, i)
         IN  IF ~row.ok THEN row
             ELSE imputed_loop(self, i + 1, Append(new_scores, row.val))

\* the parameter distance of the method is never read
new_imputed_missing_scores(self) == imputed_loop(self, 0, <<>>)

(***************************************************************************)
(* Figure 3: the sensitivity sweep over a table fig1.  The factors .9 and  *)
(* 1.1 are kept in tenths, and so is the perturbed weight.                 *)
(***************************************************************************)
Factors == <<9, 11>>

Tenths(n) == [nan |-> FALSE, num |-> n, den |-> 10]

\* the record appended for one (criterion_index, factor) pair
sensitivity_record(fig1, criterion_index, factor) ==
    LET best == best_alternative(fig1)
    IN  IF ~PyIndexOK(fig1.weights, criterion_index) THEN Raise("IndexError")
        ELSE IF ~best.ok THEN best
        ELSE Return(<<PyGet(fig1.criteria, criterion_index),
                      Tenths(PyGet(fig1.weights, criterion_index).v * factor),
                      1 + best.val>>)

\* the two nested loops, pair k of the (criterion, factor) pairs on
RECURSIVE sensitivity_loop(_, _, _)
sensitivity_loop(fig1, k, analysis) ==
    IF k >= Len(fig1.criteria) * Len(Factors) THEN Return(analysis)
    ELSE LET next == sensitivity_record(fig1, k \div Len(Factors),
                                        Factors[(k % Len(Factors)) + 1])
         IN  IF ~next.ok THEN next
             ELSE sensitivity_loop(fig1, k + 1, Append(analysis, next.val))

sensitivity_analysis(fig1) == sensitivity_loop(fig1, 0, <<>>)

(***************************************************************************)
(* Tables.  A table of the scoring specifications has any weights; the     *)
(* imputation never reads the weights, and its tables all carry weight 1.  *)
(* The constructor is also run on sequences whose lengths disagree.        *)
(***************************************************************************)
SeqsOf(S, n) == [1..n -> S]

SeqsUpTo(S, n) == UNION { SeqsOf(S, k) : k \in 0..n }

WellFormed(t) ==
    /\ Len(t.weights) = Len(t.criteria)
    /\ Len(t.scores) = Len(t.alternatives)
    /\ \A a \in 1..Len(t.scores) : Len(t.scores[a]) = Len(t.criteria)

\* t is a table of at most MaxCriteria criteria and maxAlternatives alternatives,
\* its weights drawn from weightValues and its scores from ScoreValues
IsTable(t, weightValues, maxAlternatives) ==
    \E n \in 0..MaxCriteria, m \in 0..maxAlternatives :
      \E w \in SeqsOf(weightValues, n), s \in SeqsOf(SeqsOf(ScoreValues, n), m) :
        t = KTDA(SubSeq(CriterionNames, 1, n), w, SubSeq(AlternativeNames, 1, m), s)

NoTable == KTDA(<<>>, <<>>, <<>>, <<>>)

NoResult == [op |-> "none"]

Called(op, args, out) == [op |-> op, args |-> args, out |-> out]

\* indices tried by the scoring calls: the valid ones, the negative ones and
\* those past the end
AlternativeIndexInputs == (0 - MaxScoredAlternatives - 1)..MaxScoredAlternatives

CriterionIndexInputs == (0 - MaxCriteria - 1)..MaxCriteria

\* max_score of new_normalized: the default, and two others
DefaultMaxScore == 10

MaxScoreInputs == {Num(DefaultMaxScore), Num(1), Num(0)}

Init ==
    /\ IsTable(table, WeightValues, MaxScoredAlternatives)
    /\ result = NoResult

InitImpute ==
    /\ IsTable(table, {Num(1)}, MaxAlternatives)
    /\ result = NoResult

InitNew ==
    /\ table = NoTable
    /\ result = NoResult

\* the rows x and y of a distance computation, held as a table of two alternatives
InitDistance ==
    /\ \E n \in 0..MaxCriteria :
         \E x \in SeqsOf(ScoreValues, n), y \in SeqsOf(ScoreValues, n) :
           table = KTDA(SubSeq(CriterionNames, 1, n), [c \in 1..n |-> Num(1)],
                        SubSeq(AlternativeNames, 1, 2), <<x, y>>)
    /\ result = NoResult

(***************************************************************************)
(* The operations.  Every method leaves the table it is called on as it is,*)
(* so a call's outcome does not depend on the calls before it: a behaviour *)
(* follows one call on the table as constructed.                           *)
(***************************************************************************)
Ready == result = NoResult

\* KTDA.__init__ on a new object: it stores its four arguments and checks nothing
Construct ==
    /\ Ready
    /\ \E criteria \in { SubSeq(CriterionNames, 1, n) : n \in 0..MaxCriteria },
          weights \in SeqsUpTo(WeightValues, MaxCriteria),
          alternatives \in { SubSeq(AlternativeNames, 1, m) : m \in 0..MaxAlternatives },
          scores \in SeqsUpTo(SeqsUpTo(ScoreValues, MaxCriteria), MaxAlternatives) :
         /\ table' = KTDA(criteria, weights, alternatives, scores)
         /\ result' = Called("__init__", <<>>, Return("None"))

WeightedScore ==
    /\ Ready
    /\ \E a \in AlternativeIndexInputs, c \in CriterionIndexInputs :
         result' = Called("_weighted_score", <<a, c>>, weighted_score(table, a, c))
    /\ UNCHANGED table

TotalWeightedScore ==
    /\ Ready
    /\ \E a \in AlternativeIndexInputs :
         result' = Called("_total_weighted_score", <<a>>, total_weighted_score(table, a))
    /\ UNCHANGED table

BestAlternative ==
    /\ Ready
    /\ result' = Called("best_alternative", <<>>, best_alternative(table))
    /\ UNCHANGED table

NewNormalized ==
    /\ Ready
    /\ \E max_score \in MaxScoreInputs :
         result' = Called("new_normalized", <<max_score>>, new_normalized(table, max_score))
    /\ UNCHANGED table

SensitivityAnalysis ==
    /\ Ready
    /\ result' = Called("sensitivity_analysis", <<>>, sensitivity_analysis(table))
    /\ UNCHANGED table

EuclideanDistance ==
    /\ Ready
    /\ \E i \in 1..Len(table.scores), j \in 1..Len(table.scores) :
         result' = Called("euclidean_distance", <<table.scores[i], table.scores[j]>>,
                          euclidean_distance(table.scores[i], table.scores[j]))
    /\ UNCHANGED table

ClosestIndex ==
    /\ Ready
    /\ \E query_index \in 0..(Len(table.alternatives) - 1) :
         result' = Called("_closest_index", <<query_index>>,
                          closest_index(table, query_index))
    /\ UNCHANGED table

NewImputedMissingScores ==
    /\ Ready
    /\ result' = Called("new_imputed_missing_scores", <<>>, new_imputed_missing_scores(table))
    /\ UNCHANGED table

(***************************************************************************)
(* Specifications: the scoring of a table, the indexing of its cells, its  *)
(* normalisation, the sensitivity sweep, the imputation, and construction. *)
(***************************************************************************)
Spec == Init /\ [][BestAlternative]_vars

NextIndex ==
    \/ WeightedScore
    \/ TotalWeightedScore

SpecIndex == Init /\ [][NextIndex]_vars

SpecNormalized == Init /\ [][NewNormalized]_vars

SpecSensitivity == Init /\ [][SensitivityAnalysis]_vars

SpecDistance == InitDistance /\ [][EuclideanDistance]_vars

NextImpute ==
    \/ ClosestIndex
    \/ NewImputedMissingScores

SpecImpute == InitImpute /\ [][NextImpute]_vars

SpecConstruct == InitNew /\ [][Construct]_vars

(***************************************************************************)
(* Properties.                                                             *)
(***************************************************************************)
AlternativeIndices == 0..(Len(table.alternatives) - 1)

CriterionIndices == 0..(Len(table.criteria) - 1)

Row(a) == table.scores[a + 1]

TotalOf(a) == total_weighted_score(table, a).val

CalledOp(op) == result.op = op

\* C1: on a table with at least one alternative and no missing total,
\* best_alternative returns an index whose total is the maximum of all totals,
\* and the lowest index among those that reach the maximum.
C1_BestIsLowestMaximum ==
    ( /\ CalledOp("best_alternative")
      /\ AlternativeIndices # {}
      /\ \A a \in AlternativeIndices : ~is_missing(TotalOf(a)) )
    => /\ result.out.ok
       /\ result.out.val \in AlternativeIndices
       /\ \A a \in AlternativeIndices : TotalOf(a).v <= TotalOf(result.out.val).v
       /\ \A a \in AlternativeIndices :
            a < result.out.val => TotalOf(a).v < TotalOf(result.out.val).v

\* best_alternative has returned the lower of two alternatives that tie at a
\* positive maximum total
C1_Witness ==
    /\ CalledOp("best_alternative")
    /\ \A a \in AlternativeIndices : ~is_missing(TotalOf(a))
    /\ result.out.ok
    /\ \E a \in AlternativeIndices :
         /\ a > result.out.val
         /\ TotalOf(a).v = TotalOf(result.out.val).v
         /\ TotalOf(a).v > 0

\* C10: the total of an alternative is missing iff its row has a missing score;
\* best_alternative returns 0 whenever the total of alternative 0 is missing, and
\* otherwise the lowest index reaching the maximum of the totals that are not
\* missing.
C10_MissingTotalPolicy ==
    /\ \A a \in AlternativeIndices :
         /\ total_weighted_score(table, a).ok
         /\ is_missing(TotalOf(a)) <=> has_missing(Row(a))
    /\ (CalledOp("best_alternative") /\ AlternativeIndices # {})
       => /\ result.out.ok
          /\ result.out.val \in AlternativeIndices
          /\ is_missing(TotalOf(0)) => result.out.val = 0
          /\ ~is_missing(TotalOf(0)) =>
               /\ ~is_missing(TotalOf(result.out.val))
               /\ \A a \in AlternativeIndices :
                    ~is_missing(TotalOf(a)) =>
                      /\ TotalOf(a).v <= TotalOf(result.out.val).v
                      /\ a < result.out.val => TotalOf(a).v < TotalOf(result.out.val).v

\* best_alternative has returned 0 for a missing total of alternative 0 although
\* a later alternative has a known, positive total
C10_Witness ==
    /\ CalledOp("best_alternative")
    /\ result.out.ok
    /\ result.out.val = 0
    /\ has_missing(Row(0))
    /\ \E a \in AlternativeIndices : ~is_missing(TotalOf(a)) /\ TotalOf(a).v > 0

\* C8: _weighted_score and _total_weighted_score fail for every alternative
\* index outside [0, M) and every criterion index outside [0, N), the negative
\* ones included.
C8_OutOfRangeIndexFails ==
    /\ CalledOp("_weighted_score") =>
         ( (result.args[1] \notin AlternativeIndices \/ result.args[2] \notin CriterionIndices)
           => ~result.out.ok )
    /\ CalledOp("_total_weighted_score") =>
         ( result.args[1] \notin AlternativeIndices => ~result.out.ok )

\* C6: new_normalized fails, and returns no table, on every
\* table whose weights sum to zero.
C6_ZeroSumFails ==
    (CalledOp("new_normalized") /\ FSum(table.weights) = Num(0)) => ~result.out.ok

\* C6, amended: on every table of at least one criterion whose weights sum to
\* zero, new_normalized raises ZeroDivisionError and returns no table.
C6_ZeroSumFailsWithCriteria ==
    ( /\ CalledOp("new_normalized")
      /\ Len(table.weights) >= 1
      /\ FSum(table.weights) = Num(0) )
    => /\ ~result.out.ok
       /\ result.out.err = "ZeroDivisionError"

\* new_normalized has been called with the default max_score on a table of two
\* criteria of weight 0 that has scores
C6_Witness ==
    /\ CalledOp("new_normalized")
    /\ result.args[1] = Num(DefaultMaxScore)
    /\ Len(table.weights) = 2
    /\ FSum(table.weights) = Num(0)
    /\ Len(table.scores) >= 1
    /\ ~result.out.ok

\* C7: no table is constructed whose weights are not as many as its
\* criteria, whose score rows are not as many as its alternatives, or one of whose
\* rows is not as long as the criteria.
C7_ConstructedTablesAreWellFormed ==
    (CalledOp("__init__") /\ result.out.ok) => WellFormed(table)

\* the transient table of the sweep: fig1 with weights[c] multiplied by the
\* factor f (in tenths), every weight written in tenths
PerturbedTable(fig1, c, f) ==
    KTDA(fig1.criteria,
         [k \in 1..Len(fig1.weights) |->
            IF k = c + 1 THEN Num(fig1.weights[k].v * f) ELSE Num(fig1.weights[k].v * 10)],
         fig1.alternatives, fig1.scores)

\* C5: the sweep appends one record per (criterion, factor) pair, criteria
\* outermost, and the third component of the record of criterion c and factor f
\* is 1 + best_alternative() of the table whose weights[c] is multiplied by f.
C5_SweepRanksPerturbedTable ==
    (CalledOp("sensitivity_analysis") /\ result.out.ok) =>
      /\ Len(result.out.val) = Len(table.criteria) * Len(Factors)
      /\ \A c \in CriterionIndices : \A j \in 1..Len(Factors) :
           LET record == result.out.val[c * Len(Factors) + j]
           IN  /\ record[1] = table.criteria[c + 1]
               /\ record[3] = 1 + best_alternative(PerturbedTable(table, c, Factors[j])).val

\* the sum of the squared differences over the positions where both rows are known
RECURSIVE JointSquares(_, _, _)
JointSquares(x, y, n) ==
    IF n = 0 THEN 0
    ELSE JointSquares(x, y, n - 1)
         + (IF x[n].nan \/ y[n].nan THEN 0 ELSE (x[n].v - y[n].v) * (x[n].v - y[n].v))

\* C9: distance(x, y) = distance(y, x) for any two rows, and it is the root of
\* the squared differences summed over the positions where both are known, a
\* position where either is missing adding nothing.
C9_DistanceSymmetric ==
    CalledOp("euclidean_distance") =>
      /\ result.out = euclidean_distance(result.args[2], result.args[1])
      /\ result.out.ok
      /\ result.out.val = Sqrt(JointSquares(result.args[1], result.args[2],
                                            Len(result.args[1])))

\* a distance has been computed between two rows that differ at a position where
\* both are known and of which just one is missing at another position
C9_Witness ==
    /\ CalledOp("euclidean_distance")
    /\ result.out.ok
    /\ result.out.val.sq > 0
    /\ \E k \in 1..Len(result.args[1]) :
         is_missing(result.args[1][k]) # is_missing(result.args[2][k])

\* the rows _closest_index may return for the query q: complete, and not q
Candidates(q) == { i \in AlternativeIndices : i # q /\ ~has_missing(Row(i)) }

DistanceTo(q, i) == euclidean_distance(Row(i), Row(q)).val.sq

\* C3: when a candidate exists, _closest_index(q) returns a complete row other
\* than q at the minimal distance to row q, the lowest index among those at the
\* minimal distance.
C3_ClosestIsLowestNearest ==
    (CalledOp("_closest_index") /\ Candidates(result.args[1]) # {}) =>
      LET q == result.args[1]
      IN  /\ result.out.ok
          /\ result.out.val \in Candidates(q)
          /\ \A i \in Candidates(q) :
               /\ DistanceTo(q, result.out.val) <= DistanceTo(q, i)
               /\ i < result.out.val => DistanceTo(q, result.out.val) < DistanceTo(q, i)

\* _closest_index has returned, for a query row with a missing cell, the lower of
\* two candidates tied at a minimal distance that is not zero
C3_Witness ==
    /\ CalledOp("_closest_index")
    /\ result.out.ok
    /\ has_missing(Row(result.args[1]))
    /\ \E i \in Candidates(result.args[1]) :
         /\ i > result.out.val
         /\ DistanceTo(result.args[1], i) = DistanceTo(result.args[1], result.out.val)
         /\ DistanceTo(result.args[1], i) > 0

\* C2: when some row is complete, new_imputed_missing_scores returns a table
\* whose row i is row i if that has no missing cell, and otherwise holds
\* scores[i][k] where that is known and scores[d][k] where it is missing, d being
\* _closest_index(i).
C2_ImputedRows ==
    ( /\ CalledOp("new_imputed_missing_scores")
      /\ \E a \in AlternativeIndices : ~has_missing(Row(a)) )
    => /\ result.out.ok
       /\ Len(result.out.val.scores) = Len(table.scores)
       /\ \A i \in AlternativeIndices :
            LET new_row == result.out.val.scores[i + 1]
            IN  IF ~has_missing(Row(i)) THEN new_row = Row(i)
                ELSE LET d == closest_index(table, i).val
                     IN  /\ d \in Candidates(i)
                         /\ Len(new_row) = Len(Row(i))
                         /\ \A k \in 1..Len(Row(i)) :
                              new_row[k] = IF is_missing(Row(i)[k]) THEN Row(d)[k]
                                           ELSE Row(i)[k]

\* the imputation has returned for a table with a row that has a missing and a
\* known cell, where the donor differs from the row at the known cell
C2_Witness ==
    /\ CalledOp("new_imputed_missing_scores")
    /\ result.out.ok
    /\ \E i \in AlternativeIndices :
         /\ has_missing(Row(i))
         /\ Candidates(i) # {}
         /\ \E k \in 1..Len(Row(i)) :
              /\ ~is_missing(Row(i)[k])
              /\ Row(closest_index(table, i).val)[k] # Row(i)[k]

\* C4: when a row has a missing value and no other row is complete, the
\* imputation does not return normally with a row that still has a missing cell,
\* nor with a row built on a donor taken at the index -1 of an empty search.
C4_NoCompleteRowIsHandled ==
    ( /\ CalledOp("new_imputed_missing_scores")
      /\ result.out.ok )
    => \A i \in AlternativeIndices :
         (has_missing(Row(i)) /\ Candidates(i) = {})
         => /\ ~has_missing(result.out.val.scores[i + 1])
            /\ closest_index(table, i) # Return(-1)

====
